---- MODULE Spec2Model ----
(***************************************************************************)
(* Rhodium: identifier generation (chiron.generate_item_id), the bootstrap *)
(* of the per-installation parameters (chaos.py) and the request handling  *)
(* of the web application (hestia.py, hermes.py), over one SQLite store.   *)
(*                                                                         *)
(* The store is modelled by its committed rows, the tables' existence and  *)
(* the single write lock of SQLite.  A session's SELECT reads the          *)
(* committed rows and holds no lock afterwards (the driver opens a         *)
(* transaction at the first INSERT/UPDATE only); its writes stay private   *)
(* until its commit and are dropped by a rollback.                         *)
(***************************************************************************)
EXTENDS Integers, Sequences, FiniteSets, TLC

\* ------------------------------------------------------------------ bounds
\* Scaled stand-in for the 256 values of a byte: the 7-byte counter field
\* then overflows at ByteBase^7, a value the model can reach.
ByteBase == 2
\* Number of generate_item_id calls followed in one behaviour that also runs
\* chaos.py, and in one behaviour of the serving application alone.
MaxCalls == 2
MaxCallsRun == 5
MaxCallsPair == 3
\* Last reading of the millisecond clock.
MaxTime == 1
\* Number of runs of chaos.py followed in one behaviour.
MaxRuns == 2
\* Number of leading identifier bytes that range over SampleBytes.
MaxVaried == 2
\* Clock ticks in one calendar day.
DayLen == 4
\* Last reading of the tick clock.
MaxClock == 12
\* Largest number of rows in the items table when a route is exercised.
MaxRecs == 2
\* Number of get_secret calls followed in one behaviour.
MaxSecretCalls == 2

\* ------------------------------------------------------- program constants
TS_LEN == 7
MAC_LEN == 2
CTR_LEN == 7

Sessions == {"s1", "s2"}

\* Absent row / unset integer field.
None == -1
\* Absent string.
NoStr == << >>

ParamKeys == {"node_id", "trng_seed", "first_boot"}

\* ------------------------------------------------------------ pure helpers
RECURSIVE Pow(_, _)
Pow(b, e) == IF e = 0 THEN 1 ELSE b * Pow(b, e - 1)

\* int.to_bytes(len, "big") succeeds iff the value fits in len bytes.
Fits(n, len) == n >= 0 /\ n < Pow(ByteBase, len)

\* int.to_bytes(len, "big"): the big-endian digits of n, most significant first.
RECURSIVE ToBytes(_, _)
ToBytes(n, len) ==
    IF len = 0 THEN << >>
    ELSE Append(ToBytes(n \div ByteBase, len - 1), n % ByteBase)

\* bytes.hex(): two hex digits per byte, high nibble first (digits as 0..15).
RECURSIVE HexOf(_)
HexOf(b) ==
    IF b = << >> THEN << >>
    ELSE << Head(b) \div 16, Head(b) % 16 >> \o HexOf(Tail(b))

\* bytes.fromhex(): the inverse pairing of hex digits into bytes.
RECURSIVE FromHex(_)
FromHex(h) ==
    IF Len(h) < 2 THEN << >>
    ELSE << 16 * h[1] + h[2] >> \o FromHex(SubSeq(h, 3, Len(h)))

\* Comparison of two byte strings of equal length, as Python compares bytes.
RECURSIVE LexLeq(_, _)
LexLeq(a, b) ==
    IF a = << >> \/ b = << >> THEN a = << >>
    ELSE IF Head(a) # Head(b) THEN Head(a) < Head(b)
    ELSE LexLeq(Tail(a), Tail(b))

\* The 7-byte counter field of an identifier, as an integer.
RECURSIVE FromBytes(_)
FromBytes(b) ==
    IF b = << >> THEN 0
    ELSE FromBytes(SubSeq(b, 1, Len(b) - 1)) * ByteBase + b[Len(b)]

TsField(id) == SubSeq(id, 1, TS_LEN)
MacField(id) == SubSeq(id, TS_LEN + 1, TS_LEN + MAC_LEN)
CtrField(id) == SubSeq(id, TS_LEN + MAC_LEN + 1, TS_LEN + MAC_LEN + CTR_LEN)

\* Mutant: the counter field is placed first and the timestamp last.
MakeId_CounterFirst(ts, mac, ctr) == ToBytes(ctr, CTR_LEN) \o mac \o ToBytes(ts, TS_LEN)

\* ts_bytes + mac_bytes + ctr_bytes
MakeId(ts, mac, ctr) == ToBytes(ts, TS_LEN) \o mac \o ToBytes(ctr, CTR_LEN)

\* Counter values of 56 bits (scaled): 0 .. CounterLimit - 1.
CounterLimit == Pow(ByteBase, CTR_LEN)

\* secrets.randbits(56): the values followed by the model, the two largest
\* included.
SeedValues == {1, CounterLimit - 2, CounterLimit - 1}

\* get_node_id(): the first two bytes of a digest of the hardware address.
NodeIds == { <<0, 1>>, <<1, 0>> }

\* str(v) of the first_boot supplier's datetime, read at clock value t.
StrOfTime(t) == << t >>

\* --------------------------------------------------- identifiers as text
\* len(b) != 16
ID_LEN == 16

\* The digits binascii.hexlify writes, by value.
HexDigits ==
    << "0", "1", "2", "3", "4", "5", "6", "7",
       "8", "9", "a", "b", "c", "d", "e", "f" >>

\* The upper-case digits binascii.unhexlify accepts as well.
UpperDigits ==
    << "0", "1", "2", "3", "4", "5", "6", "7",
       "8", "9", "A", "B", "C", "D", "E", "F" >>

\* Value of one character as a hex digit, None when it is not one.
HexValue(c) ==
    IF \E i \in 1..16 : HexDigits[i] = c
    THEN (CHOOSE i \in 1..16 : HexDigits[i] = c) - 1
    ELSE IF \E i \in 1..16 : UpperDigits[i] = c
         THEN (CHOOSE i \in 1..16 : UpperDigits[i] = c) - 1
         ELSE None

\* binascii.hexlify(b).decode("ascii"): two lower-case digits per byte,
\* high nibble first.
hexlify(b) ==
    [ i \in 1..(2 * Len(b)) |->
        IF i % 2 = 1
        THEN HexDigits[(b[(i + 1) \div 2] \div 16) + 1]
        ELSE HexDigits[(b[i \div 2] % 16) + 1] ]

\* Mutant: the decoder reads the low nibble first.
unhexlify_LowNibbleFirst(s) ==
    IF Len(s) % 2 = 1 \/ \E i \in 1..Len(s) : HexValue(s[i]) = None
    THEN [ raised |-> "binascii.Error", value |-> << >> ]
    ELSE [ raised |-> "none",
           value |-> [ i \in 1..(Len(s) \div 2) |->
                         HexValue(s[2 * i - 1]) + 16 * HexValue(s[2 * i]) ] ]

\* binascii.unhexlify(s): binascii.Error on an odd length or on a character
\* that is not a hex digit; otherwise one byte per two digits.
unhexlify(s) ==
    IF Len(s) % 2 = 1 \/ \E i \in 1..Len(s) : HexValue(s[i]) = None
    THEN [ raised |-> "binascii.Error", value |-> << >> ]
    ELSE [ raised |-> "none",
           value |-> [ i \in 1..(Len(s) \div 2) |->
                         16 * HexValue(s[2 * i - 1]) + HexValue(s[2 * i]) ] ]

hexid(b) == hexlify(b)

\* Mutant: the length of the decoded bytes is not checked.
unhexid_AnyLength(s) ==
    LET r == unhexlify(s) IN
    IF r.raised # "none"
    THEN [ raised |-> "ValueError", value |-> << >> ]
    ELSE [ raised |-> "none", value |-> r.value ]

\* Every exception inside the try block, the length check's own ValueError
\* included, is replaced by ValueError("Invalid item ID").
unhexid(s) ==
    LET r == unhexlify(s) IN
    IF r.raised # "none" \/ Len(r.value) # ID_LEN
    THEN [ raised |-> "ValueError", value |-> << >> ]
    ELSE [ raised |-> "none", value |-> r.value ]

\* Byte values at the edges of the digit ranges.
SampleBytes == {0, 9, 10, 15, 16, 171, 255}

\* The 16-byte identifiers the encoders are applied to: the first
\* MaxVaried bytes range over SampleBytes, the rest follow a fixed pattern
\* that uses every hex digit.
SampleIds ==
    { [ i \in 1..ID_LEN |->
          IF i <= MaxVaried THEN v[i] ELSE (17 * (i - 1)) % 256 ] :
      v \in [ 1..MaxVaried -> SampleBytes ] }

\* Characters that are not hex digits.
BadChars == {"g", "G", " ", "-", "x"}

\* t with its p-th character replaced by c.
WithChar(t, p, c) == [ i \in 1..Len(t) |-> IF i = p THEN c ELSE t[i] ]

\* Upper-case form of a hex string.
ToUpper(t) == [ i \in 1..Len(t) |-> UpperDigits[HexValue(t[i]) + 1] ]

\* Strings handed to unhexid for one identifier: its encoding, the
\* upper-case encoding, and these with a wrong length, an odd length or a
\* character that is no hex digit.
Texts(id) ==
    LET v == hexlify(id) IN
    {v, ToUpper(v)}
      \cup {<< >>, SubSeq(v, 1, 2), SubSeq(v, 1, 30), SubSeq(v, 1, 31),
            v \o <<"0">>, v \o <<"0", "0">>, <<" ">> \o SubSeq(v, 1, 31),
            v \o <<" ">>}
      \cup { WithChar(v, p, c) : p \in {1, 2, 32}, c \in BadChars }

\* ---------------------------------------------------------- secret file
\* Characters of secrets.token_hex(32); {64} in the validation pattern.
SECRET_LEN == 64

\* chmod(0o600)
MODE_0600 == 384

\* Permission bits a file can carry: 0600, 0644, 0666, 0400.
FileModes == {MODE_0600, 420, 438, 256}

\* Mode of a file created by open(): 0666 without the umask bits, for the
\* umasks 022 and 077.
CreateModes == {420, MODE_0600}

\* Characters str.strip() removes at both ends.
Whitespace == {" ", "\n", "\t"}

\* Secrets token_hex returns: 64 lower-case hex digits.
FreshSecrets ==
    { [ i \in 1..SECRET_LEN |-> HexDigits[(i % 16) + 1] ],
      [ i \in 1..SECRET_LEN |-> HexDigits[((5 * i + 3) % 16) + 1] ] }

\* A secret stored by an earlier run.
OldSecret == [ i \in 1..SECRET_LEN |-> HexDigits[((7 * i) % 16) + 1] ]

\* Contents a secret file is found with: a secret, a secret with one
\* character changed, with whitespace around it, of another length,
\* nothing.
FileContents ==
    { OldSecret,
      WithChar(OldSecret, 1, "b"),
      WithChar(OldSecret, 1, "g"),
      WithChar(OldSecret, SECRET_LEN, "B"),
      WithChar(OldSecret, 2, " "),
      OldSecret \o << "\n" >>,
      << " " >> \o OldSecret,
      << "\t" >> \o OldSecret \o << " ", "\n" >>,
      OldSecret \o << "\n", "0" >>,
      SubSeq(OldSecret, 1, SECRET_LEN - 1),
      OldSecret \o << "0" >>,
      << >> }

\* Mutant: only trailing whitespace is removed.
Strip_TrailingOnly(t) ==
    LET keep == { i \in 1..Len(t) : t[i] \notin Whitespace } IN
    IF keep = {} THEN << >>
    ELSE SubSeq(t, 1, CHOOSE j \in keep : \A i \in keep : i <= j)

\* str.strip(): leading and trailing whitespace removed.
Strip(t) ==
    LET keep == { i \in 1..Len(t) : t[i] \notin Whitespace } IN
    IF keep = {} THEN << >>
    ELSE SubSeq(t, CHOOSE j \in keep : \A i \in keep : j <= i,
                   CHOOSE j \in keep : \A i \in keep : i <= j)

\* [0-9a-f]
IsLowerHex(c) == \E i \in 1..16 : HexDigits[i] = c

\* re.match(r'^[0-9a-f]{64}$', t): $ matches at the end and before a final
\* newline.
ReMatch(t) ==
    /\ Len(t) \in {SECRET_LEN, SECRET_LEN + 1}
    /\ \A i \in 1..SECRET_LEN : IsLowerHex(t[i])
    /\ Len(t) = SECRET_LEN + 1 => t[SECRET_LEN + 1] = "\n"

\* Owner read / write and other read / write bits of a mode.
OwnerR(m) == (m \div 256) % 2 = 1
OwnerW(m) == (m \div 128) % 2 = 1
OtherR(m) == (m \div 4) % 2 = 1
OtherW(m) == (m \div 2) % 2 = 1

\* open() for reading / for writing an existing file succeeds.
CanRead(f) == IF f.owned THEN OwnerR(f.mode) ELSE OtherR(f.mode)
CanWrite(f) == IF f.owned THEN OwnerW(f.mode) ELSE OtherW(f.mode)

\* ------------------------------------------------------------ time zones
\* Zone names ZoneInfo() finds; any other key raises.
KnownZones == {"UTC", "Asia/Tokyo", "America/New_York", "America/Santiago"}

\* UTC offset of a zone before its first transition, in ticks.
ZoneBase(z) ==
    CASE z = "UTC"              -> 0
      [] z = "Asia/Tokyo"       -> 1
      [] z = "America/New_York" -> 0 - 2
      [] z = "America/Santiago" -> 0 - 1

\* The transitions of a zone: the UTC tick at which the offset changes and
\* the offset from then on.  New York moves its clocks forward during the
\* second day followed and back during the third.  Santiago starts on summer
\* time and moves its clocks back at local midnight, so that the last tick
\* of its second day comes twice.
ZoneTrans(z) ==
    IF z = "America/New_York"
    THEN << [ at |-> DayLen + 3, off |-> 0 - 1 ],
            [ at |-> 2 * DayLen + 2, off |-> 0 - 2 ] >>
    ELSE IF z = "America/Santiago"
    THEN << [ at |-> 2 * DayLen + 1, off |-> 0 - 2 ] >>
    ELSE << >>

\* Offset in force after the k-th transition.
ZoneOff(z, k) == IF k = 0 THEN ZoneBase(z) ELSE ZoneTrans(z)[k].off

Max2(a, b) == IF a >= b THEN a ELSE b

\* ZoneInfo.fromutc: the offset in force at a UTC instant.
OffsetAtUtc(z, t) ==
    ZoneOff(z, Cardinality({ k \in 1..Len(ZoneTrans(z)) :
                               ZoneTrans(z)[k].at <= t }))

\* ZoneInfo.utcoffset of a wall time with fold = 0: a transition applies
\* from the wall time (transition + larger of the two offsets) on, so a
\* wall time that is skipped or repeated gets the offset before it.
OffsetAtWall(z, w) ==
    ZoneOff(z, Cardinality({ k \in 1..Len(ZoneTrans(z)) :
                 ZoneTrans(z)[k].at
                   + Max2(ZoneOff(z, k - 1), ZoneOff(z, k)) <= w }))

\* datetime(..., tzinfo=zone).astimezone(timezone.utc) of a wall time
WallToUtc(w, z) == w - OffsetAtWall(z, w)

\* dt_utc.astimezone(zone) of a UTC instant
UtcToWall(t, z) == t + OffsetAtUtc(z, t)

\* to_utc(dt, user_tz): None stays None
to_utc(w, z) == IF w = None THEN None ELSE WallToUtc(w, z)

\* to_user_tz(dt_utc, user_tz): None stays None
to_user_tz(t, z) == IF t = None THEN None ELSE UtcToWall(t, z)

\* SQLAlchemy's DateTime text for SQLite: date, then time of day, of the wall
\* time of the value; the tzinfo is not written.
StoredText(t) == << t \div DayLen, t % DayLen >>

\* Text comparison of two stored DateTime values.
TextLeq(a, b) == a[1] < b[1] \/ (a[1] = b[1] /\ a[2] <= b[2])

\* Values of the tz query argument: absent, empty, known and unknown names.
TzArgs ==
    { << >>, << "" >>, << "UTC" >>, << "Asia/Tokyo" >>,
      << "America/New_York" >>, << "America/Santiago" >>,
      << "Mars/Phobos" >> }

\* Mutant: a zone that was not applied is reported as applied.
get_user_tz_AlwaysApplied(arg) ==
    IF arg = << >> \/ arg[1] = ""
    THEN [ name |-> "UTC", zone |-> "UTC", applied |-> TRUE ]
    ELSE IF arg[1] \in KnownZones
         THEN [ name |-> arg[1], zone |-> arg[1], applied |-> TRUE ]
         ELSE [ name |-> "UTC", zone |-> "UTC", applied |-> TRUE ]

\* (tz_name, ZoneInfo(tz_name), tz_arg_exists) for request.args.get("tz")
get_user_tz(arg) ==
    IF arg = << >> \/ arg[1] = ""
    THEN [ name |-> "UTC", zone |-> "UTC", applied |-> FALSE ]
    ELSE IF arg[1] \in KnownZones
         THEN [ name |-> arg[1], zone |-> arg[1], applied |-> TRUE ]
         ELSE [ name |-> "UTC", zone |-> "UTC", applied |-> FALSE ]

\* Item.status values; "done" is the one the due-today query leaves out.
Statuses == {"pending", "done"}

\* Primary key of the i-th row stored.
RecId(i) == [ j \in 1..ID_LEN |-> (16 * i + j) % 256 ]

\* ------------------------------------------------------------------- state
VARIABLES
    dbfile,     \* DB_PATH.exists()
    tables,     \* the schema (SysParameters, Counters, items) exists
    params,     \* committed SysParameters rows: key -> value, NoStr if absent
    counter,    \* committed Counters.primary_counter value, None if absent
    items,      \* committed primary keys of the items table
    lock,       \* holder of the store's write lock: "none", a session, "chaos"
    now,        \* datetime.now(timezone.utc) in milliseconds
    app_up,     \* flask_setup has run and requests are served
    sess,       \* per request session: position and locals of the handler
    chaos,      \* the chaos.py process: position, locals, pending inserts
    calls,      \* history: one record per generate_item_id call
    nruns,      \* history: runs of chaos.py started so far
    maxcalls,   \* number of generate_item_id calls followed
    hx,         \* hexid/unhexid applied to one identifier and one string
    req,        \* the request a hermes route is serving: position and locals
    recs,       \* committed rows of the items table: id, status, due, priority
    clock,      \* datetime.now(timezone.utc) in ticks of the day model
    sfile,      \* the secret file: existence, content, permission bits
    gs          \* the process calling get_secret: position and locals

vars == << dbfile, tables, params, counter, items, lock, now, app_up,
           sess, chaos, calls, nruns, maxcalls,
           hx, req, recs, clock, sfile, gs >>

\* The identifier service and its bootstrap.
core == << dbfile, tables, params, counter, items, lock, now, app_up,
          sess, chaos, calls, nruns, maxcalls >>

\* Identifier encoding, the hermes routes and the secret file.
aux == << hx, req, recs, clock, sfile, gs >>

store == << dbfile, tables, params, counter, items >>

IdleSession ==
    [ pc |-> "idle", exc |-> "none", ts |-> None, mac |-> NoStr,
      prev |-> None, newv |-> None, upd |-> FALSE, id |-> NoStr, call |-> 0 ]

NoPending == [ k \in ParamKeys |-> NoStr ]

IdleChaos ==
    [ pc |-> "idle", mode |-> "none", seed |-> None, pend |-> NoPending,
      pendctr |-> None, retStr |-> NoStr, retNum |-> None, wrote |-> FALSE,
      used |-> FALSE, onInit |-> FALSE ]

\* No call made yet / nothing returned.
NoResult == [ raised |-> "none", value |-> << >> ]

IdleHex ==
    [ pc |-> "off", id |-> << >>, text |-> << >>, hexed |-> << >>,
      back |-> NoResult, res |-> NoResult ]

\* No request is being served by a hermes route.
IdleReq ==
    [ pc |-> "off", route |-> "none", method |-> "GET", tz_arg |-> << >>,
      item_hex |-> << >>,
      tz |-> [ name |-> "UTC", zone |-> "UTC", applied |-> FALSE ],
      idres |-> NoResult,
      read |-> FALSE, wrote |-> FALSE, status |-> 0, today_end |-> None,
      rows |-> << >> ]

\* No secret file: db_dir is there and writable, nothing in it.
IdleSecretFile ==
    [ dir |-> "ok", cmode |-> MODE_0600, exists |-> FALSE, content |-> << >>,
      mode |-> MODE_0600, owned |-> TRUE, written |-> FALSE ]

\* Result of the call before the current one.
NoCall == [ kind |-> "none", ret |-> << >> ]

\* get_secret is not being called.
IdleSecretProc ==
    [ pc |-> "off", regen |-> FALSE, path |-> "none", secret |-> << >>,
      ret |-> << >>, n |-> 0, existed0 |-> FALSE, content0 |-> << >>,
      readable0 |-> FALSE, prev |-> NoCall ]

\* Value of a variable whose part of the program is not exercised.
Off == "off"

\* The parts of the program a specification does not exercise stay put.
AuxIdle ==
    /\ hx = Off
    /\ req = Off
    /\ recs = {}
    /\ clock = 0
    /\ sfile = Off
    /\ gs = Off

Init ==
    /\ AuxIdle
    /\ dbfile = FALSE
    /\ tables = FALSE
    /\ params = NoPending
    /\ counter = None
    /\ items = {}
    /\ lock = "none"
    /\ now = 0
    /\ app_up = FALSE
    /\ sess = [ s \in Sessions |-> IdleSession ]
    /\ chaos = IdleChaos
    /\ calls = << >>
    /\ nruns = 0
    /\ maxcalls = MaxCalls

\* The store holds the four bootstrap rows.
Initialised ==
    /\ tables
    /\ \A k \in ParamKeys : params[k] # NoStr
    /\ counter # None

CommittedCalls == { i \in DOMAIN calls : calls[i].state = "committed" }

\* ------------------------------------------------------------ environment
\* The wall clock advances.
Tick ==
    /\ now < MaxTime
    /\ now' = now + 1
    /\ UNCHANGED << store, lock, app_up, sess, chaos, calls, nruns, maxcalls >>

\* flask_setup: make_engine, Base.metadata.create_all (creates the file and
\* the missing tables, inserts no row), then the application serves requests.
FlaskSetup ==
    /\ ~app_up
    /\ app_up' = TRUE
    /\ dbfile' = TRUE
    /\ tables' = TRUE
    /\ UNCHANGED << params, counter, items, lock, now, sess, chaos, calls,
                    nruns, maxcalls >>

\* ------------------------------------------------------- request handling
\* An exception leaves the handler: the request goes to its teardown.
Raise(s, e) == [ sess EXCEPT ![s].pc = "teardown", ![s].exc = e ]

SetCall(i, st) == [ calls EXCEPT ![i].state = st ]

\* before_request: g.db = Session(engine)
BeforeRequest(s) ==
    /\ app_up
    /\ sess[s].pc = "idle"
    /\ Len(calls) < maxcalls
    /\ sess' = [ sess EXCEPT ![s].pc = "handler" ]
    /\ UNCHANGED << store, lock, now, app_up, chaos, calls, nruns, maxcalls >>

\* create, POST: parse_item_form returns (None, None) and the handler
\* redirects without generating an identifier.
ParseFormInvalid(s) ==
    /\ sess[s].pc = "handler"
    /\ sess' = [ sess EXCEPT ![s].pc = "teardown" ]
    /\ UNCHANGED << store, lock, now, app_up, chaos, calls, nruns, maxcalls >>

\* create, POST with a valid form: generate_item_id starts and captures
\* ts_ms = int(datetime.now(timezone.utc).timestamp() * 1000).
GenTimestamp(s) ==
    /\ sess[s].pc = "handler"
    /\ Len(calls) < maxcalls
    /\ calls' = Append(calls,
                  [ state |-> "running", id |-> NoStr, after |-> CommittedCalls ])
    /\ sess' = IF Fits(now, TS_LEN)
               THEN [ sess EXCEPT ![s].pc = "node", ![s].ts = now,
                                  ![s].call = Len(calls) + 1 ]
               ELSE [ Raise(s, "OverflowError") EXCEPT ![s].call = Len(calls) + 1 ]
    /\ UNCHANGED << store, lock, now, app_up, chaos, nruns, maxcalls >>

\* row = session.get(SysParameters, "node_id"); mac_bytes = bytes.fromhex(..)
GenReadNode(s) ==
    /\ sess[s].pc = "node"
    /\ sess' = IF ~tables THEN Raise(s, "OperationalError")
               ELSE IF params["node_id"] = NoStr THEN Raise(s, "RuntimeError")
               ELSE [ sess EXCEPT ![s].pc = "ctr",
                                  ![s].mac = FromHex(params["node_id"]) ]
    /\ UNCHANGED << store, lock, now, app_up, chaos, calls, nruns, maxcalls >>

\* Mutant: a missing primary_counter row is defaulted to 0.
GenReadCounter_Defaulting(s) ==
    /\ sess[s].pc = "ctr"
    /\ sess' = IF ~tables THEN Raise(s, "OperationalError")
               ELSE [ sess EXCEPT ![s].pc = "upd",
                        ![s].prev = IF counter = None THEN 0 ELSE counter ]
    /\ UNCHANGED << store, lock, now, app_up, chaos, calls, nruns, maxcalls >>

\* ctr_row = session.get(Counters, "primary_counter")
GenReadCounter(s) ==
    /\ sess[s].pc = "ctr"
    /\ sess' = IF ~tables THEN Raise(s, "OperationalError")
               ELSE IF counter = None THEN Raise(s, "RuntimeError")
               ELSE [ sess EXCEPT ![s].pc = "upd", ![s].prev = counter ]
    /\ UNCHANGED << store, lock, now, app_up, chaos, calls, nruns, maxcalls >>

\* new_value = ctr_row.value + 1
NewValue(prev) == prev + 1

\* new_value = ctr_row.value + 1; UPDATE Counters SET value = new_value
\* WHERE key = 'primary_counter' (opens the transaction and takes the write
\* lock, or fails when another connection holds it);
\* ctr_bytes = new_value.to_bytes(7, "big"); return ts + mac + ctr.
GenUpdate(s) ==
    /\ sess[s].pc = "upd"
    /\ LET nv == NewValue(sess[s].prev)
           id == MakeId(sess[s].ts, sess[s].mac, nv)
       IN  IF ~tables \/ lock \notin {"none", s}
           THEN /\ sess' = Raise(s, "OperationalError")
                /\ UNCHANGED << lock, calls >>
           ELSE /\ lock' = s
                /\ IF Fits(nv, CTR_LEN)
                   THEN /\ sess' = [ sess EXCEPT ![s].pc = "add", ![s].newv = nv,
                                       ![s].upd = (counter # None), ![s].id = id ]
                        /\ calls' = [ calls EXCEPT ![sess[s].call].state = "returned",
                                                   ![sess[s].call].id = id ]
                   ELSE /\ sess' = [ Raise(s, "OverflowError") EXCEPT
                                       ![s].newv = nv, ![s].upd = (counter # None) ]
                        /\ UNCHANGED calls
    /\ UNCHANGED << store, now, app_up, chaos, nruns, maxcalls >>

\* The items table's primary key rejects a second row with the same id.
PrimaryKeyFree(id) == id \notin items

\* Mutant: the counter UPDATE is committed on its own, so that it stays when
\* the INSERT of the record fails.
CreateCommit_KeepsCounterOnFailure(s) ==
    /\ sess[s].pc = "add"
    /\ counter' = IF sess[s].upd THEN sess[s].newv ELSE counter
    /\ IF PrimaryKeyFree(sess[s].id)
       THEN /\ items' = items \cup { sess[s].id }
            /\ lock' = "none"
            /\ calls' = SetCall(sess[s].call, "committed")
            /\ sess' = [ sess EXCEPT ![s].pc = "teardown", ![s].upd = FALSE ]
       ELSE /\ sess' = Raise(s, "IntegrityError")
            /\ UNCHANGED << items, lock, calls >>
    /\ UNCHANGED << dbfile, tables, params, now, app_up, chaos, nruns, maxcalls >>

\* g.db.add(itm); g.db.commit(): the INSERT and the counter UPDATE become
\* durable together and the write lock is released.
CreateCommit(s) ==
    /\ sess[s].pc = "add"
    /\ IF PrimaryKeyFree(sess[s].id)
       THEN /\ counter' = IF sess[s].upd THEN sess[s].newv ELSE counter
            /\ items' = items \cup { sess[s].id }
            /\ lock' = "none"
            /\ calls' = SetCall(sess[s].call, "committed")
            /\ sess' = [ sess EXCEPT ![s].pc = "teardown", ![s].upd = FALSE ]
       ELSE /\ sess' = Raise(s, "IntegrityError")
            /\ UNCHANGED << counter, items, lock, calls >>
    /\ UNCHANGED << dbfile, tables, params, now, app_up, chaos, nruns, maxcalls >>

\* Mutant: the teardown commits the open transaction of a request that
\* raised instead of rolling it back.
Teardown_CommitsOnError(s) ==
    /\ sess[s].pc = "teardown"
    /\ lock' = IF lock = s THEN "none" ELSE lock
    /\ counter' = IF lock = s /\ sess[s].upd THEN sess[s].newv ELSE counter
    /\ calls' = IF sess[s].call # 0 /\ calls[sess[s].call].state # "committed"
                THEN SetCall(sess[s].call, "failed")
                ELSE calls
    /\ sess' = [ sess EXCEPT ![s] = IdleSession ]
    /\ UNCHANGED << dbfile, tables, params, items, now, app_up, chaos, nruns, maxcalls >>

\* Mutant: the teardown forgets the session without rolling back or closing
\* it, so its open transaction and its write lock outlive the request.
Teardown_LeavesOpen(s) ==
    /\ sess[s].pc = "teardown"
    /\ calls' = IF sess[s].call # 0 /\ calls[sess[s].call].state # "committed"
                THEN SetCall(sess[s].call, "failed")
                ELSE calls
    /\ sess' = [ sess EXCEPT ![s] = IdleSession ]
    /\ UNCHANGED << store, lock, now, app_up, chaos, nruns, maxcalls >>

\* teardown_request: db.rollback() if the request raised, then db.close();
\* either ends the session's open transaction and frees the lock.
Teardown(s) ==
    /\ sess[s].pc = "teardown"
    /\ lock' = IF lock = s THEN "none" ELSE lock
    /\ calls' = IF sess[s].call # 0 /\ calls[sess[s].call].state # "committed"
                THEN SetCall(sess[s].call, "failed")
                ELSE calls
    /\ sess' = [ sess EXCEPT ![s] = IdleSession ]
    /\ UNCHANGED << store, now, app_up, chaos, nruns, maxcalls >>

\* ---------------------------------------------------------------- chaos.py
\* The process ends (an uncaught exception, or the end of "with Session"):
\* its open transaction is rolled back and the write lock is freed.
ChaosEnds ==
    /\ chaos' = IdleChaos
    /\ lock' = IF lock = "chaos" THEN "none" ELSE lock

\* main(): "if not DB_PATH.exists() or args.no_preserve_db" chooses the
\* drop-and-recreate path; otherwise only print_parameters runs.
ResetChosen(no_preserve_db) == ~dbfile \/ no_preserve_db

ChaosMain(no_preserve_db) ==
    /\ chaos.pc = "idle"
    /\ nruns < MaxRuns
    /\ nruns' = nruns + 1
    /\ chaos' = [ IdleChaos EXCEPT
                    !.mode = "main",
                    !.pc = IF ResetChosen(no_preserve_db) THEN "drop_all" ELSE "print" ]
    /\ UNCHANGED << store, lock, now, app_up, sess, calls, maxcalls >>

\* Mutant: the schema is recreated without the rows being dropped.
DropAll_KeepsRows ==
    /\ chaos.pc = "drop_all"
    /\ dbfile' = TRUE
    /\ IF lock # "none"
       THEN ChaosEnds
       ELSE /\ chaos' = [ chaos EXCEPT !.pc = "create_all" ]
            /\ UNCHANGED lock
    /\ UNCHANGED << tables, params, counter, items, now, app_up, sess, calls,
                    nruns, maxcalls >>

\* Base.metadata.drop_all(engine): connecting creates the file; the DROP
\* TABLE statements need the write lock and remove every row of every table.
DropAll ==
    /\ chaos.pc = "drop_all"
    /\ dbfile' = TRUE
    /\ IF lock # "none"
       THEN /\ ChaosEnds
            /\ UNCHANGED << tables, params, counter, items >>
       ELSE /\ tables' = FALSE
            /\ params' = NoPending
            /\ counter' = None
            /\ items' = {}
            /\ chaos' = [ chaos EXCEPT !.pc = "create_all" ]
            /\ UNCHANGED lock
    /\ UNCHANGED << now, app_up, sess, calls, nruns, maxcalls >>

\* Base.metadata.create_all(engine)
CreateAll ==
    /\ chaos.pc = "create_all"
    /\ tables' = TRUE
    /\ chaos' = [ chaos EXCEPT !.pc = "seed" ]
    /\ UNCHANGED << dbfile, params, counter, items, lock, now, app_up, sess,
                    calls, nruns, maxcalls >>

\* initialize_parameters(session) called on the store as it is.
ChaosInitialize ==
    /\ chaos.pc = "idle"
    /\ nruns < MaxRuns
    /\ nruns' = nruns + 1
    /\ chaos' = [ IdleChaos EXCEPT !.mode = "init", !.pc = "seed" ]
    /\ UNCHANGED << store, lock, now, app_up, sess, calls, maxcalls >>

\* seed = Seed(): self.value = secrets.randbits(56)
NewSeed ==
    /\ chaos.pc = "seed"
    /\ \E sd \in SeedValues :
         chaos' = [ chaos EXCEPT !.pc = "node_id", !.seed = sd,
                                 !.onInit = Initialised ]
    /\ UNCHANGED << store, lock, now, app_up, sess, calls, nruns, maxcalls >>

NextKey(k) ==
    CASE k = "node_id"   -> "trng_seed"
      [] k = "trng_seed"  -> "first_boot"
      [] k = "first_boot" -> "primary_counter"

HasPending == chaos.pendctr # None \/ \E k \in ParamKeys : chaos.pend[k] # NoStr

\* The session flushes its pending INSERTs before a SELECT and at commit;
\* the first INSERT opens the transaction and needs the write lock.
FlushBlocked == HasPending /\ lock \notin {"none", "chaos"}
LockAfterFlush == IF HasPending THEN "chaos" ELSE lock

\* The values value_fn() can return for a parameter: get_node_id, seed.hex,
\* datetime.now(tz = utc).  <<stored string, returned string, returned number>>
Supplied(k) ==
    CASE k = "node_id"    -> { << HexOf(m), HexOf(m), None >> : m \in NodeIds }
      [] k = "trng_seed"  -> { << HexOf(ToBytes(chaos.seed, CTR_LEN)),
                                  HexOf(ToBytes(chaos.seed, CTR_LEN)), None >> }
      [] k = "first_boot" -> { << StrOfTime(now), NoStr, now >> }

\* ensure_parameter: the row is absent exactly when session.get returns None.
ParameterAbsent(k) == chaos.pend[k] = NoStr /\ params[k] = NoStr

\* Mutant: ensure_parameter commits each row as soon as it adds it.
EnsureParameter_CommitsEach(k) ==
    /\ chaos.pc = k
    /\ IF lock \notin {"none", "chaos"} \/ ~tables
       THEN /\ ChaosEnds
            /\ UNCHANGED params
       ELSE /\ UNCHANGED lock
            /\ IF params[k] = NoStr
               THEN \E v \in Supplied(k) :
                      /\ params' = [ params EXCEPT ![k] = v[1] ]
                      /\ chaos' = [ chaos EXCEPT !.pc = NextKey(k),
                                     !.retStr = v[2], !.retNum = v[3],
                                     !.used = TRUE, !.wrote = TRUE ]
               ELSE /\ chaos' = [ chaos EXCEPT !.pc = NextKey(k),
                                     !.retStr = params[k],
                                     !.retNum = None, !.used = FALSE ]
                    /\ UNCHANGED params
    /\ UNCHANGED << dbfile, tables, counter, items, now, app_up, sess, calls,
                    nruns, maxcalls >>

\* ensure_parameter(session, key, value_fn)
EnsureParameter(k) ==
    /\ chaos.pc = k
    /\ IF FlushBlocked \/ ~tables
       THEN ChaosEnds
       ELSE /\ lock' = LockAfterFlush
            /\ IF ParameterAbsent(k)
               THEN \E v \in Supplied(k) :
                      chaos' = [ chaos EXCEPT !.pc = NextKey(k), !.pend[k] = v[1],
                                   !.retStr = v[2], !.retNum = v[3],
                                   !.used = TRUE, !.wrote = TRUE ]
               ELSE chaos' = [ chaos EXCEPT !.pc = NextKey(k),
                                 !.retStr = IF chaos.pend[k] # NoStr
                                            THEN chaos.pend[k] ELSE params[k],
                                 !.retNum = None, !.used = FALSE ]
    /\ UNCHANGED << store, now, app_up, sess, calls, nruns, maxcalls >>

\* Mutant: ensure_counter looks at the session's own pending row only.
CounterAbsent_IgnoresStored == chaos.pendctr = None

\* ensure_counter: the row is absent exactly when session.get returns None.
CounterAbsent == chaos.pendctr = None /\ counter = None

\* ensure_counter(session, "primary_counter", seed)
EnsureCounter ==
    /\ chaos.pc = "primary_counter"
    /\ IF FlushBlocked \/ ~tables
       THEN ChaosEnds
       ELSE /\ lock' = LockAfterFlush
            /\ IF CounterAbsent
               THEN chaos' = [ chaos EXCEPT !.pc = "commit", !.pendctr = chaos.seed,
                                 !.retStr = NoStr, !.retNum = chaos.seed,
                                 !.used = TRUE, !.wrote = TRUE ]
               ELSE chaos' = [ chaos EXCEPT !.pc = "commit", !.retStr = NoStr,
                                 !.retNum = IF chaos.pendctr # None
                                            THEN chaos.pendctr ELSE counter,
                                 !.used = FALSE ]
    /\ UNCHANGED << store, now, app_up, sess, calls, nruns, maxcalls >>

\* The rows of the store after the session's pending INSERTs are committed.
ParamsAfterCommit ==
    [ k \in ParamKeys |-> IF chaos.pend[k] # NoStr THEN chaos.pend[k] ELSE params[k] ]
CounterAfterCommit == IF chaos.pendctr # None THEN chaos.pendctr ELSE counter

\* session.commit() at the end of initialize_parameters: the one commit of
\* the bootstrap; main goes on to print_parameters.
InitCommit ==
    /\ chaos.pc = "commit"
    /\ IF FlushBlocked \/ ~tables
       THEN /\ ChaosEnds
            /\ UNCHANGED << params, counter >>
       ELSE /\ params' = ParamsAfterCommit
            /\ counter' = CounterAfterCommit
            /\ lock' = IF lock = "chaos" THEN "none" ELSE lock
            /\ chaos' = IF chaos.mode = "main"
                        THEN [ chaos EXCEPT !.pc = "print", !.pend = NoPending,
                                            !.pendctr = None ]
                        ELSE IdleChaos
    /\ UNCHANGED << dbfile, tables, items, now, app_up, sess, calls, nruns, maxcalls >>

\* if DB_PATH.exists(): print_parameters(session); the process ends.
PrintParameters ==
    /\ chaos.pc = "print"
    /\ ChaosEnds
    /\ UNCHANGED << store, now, app_up, sess, calls, nruns, maxcalls >>

\* The process is killed or interrupted while the bootstrap session is open.
ChaosInterrupt ==
    /\ chaos.pc \in {"node_id", "trng_seed", "first_boot", "primary_counter", "commit"}
    /\ ChaosEnds
    /\ UNCHANGED << store, now, app_up, sess, calls, nruns, maxcalls >>

\* ------------------------------------------------------------ specification
ChaosStep ==
    \/ \E np \in BOOLEAN : ChaosMain(np)
    \/ DropAll
    \/ CreateAll
    \/ ChaosInitialize
    \/ NewSeed
    \/ \E k \in ParamKeys : EnsureParameter(k)
    \/ EnsureCounter
    \/ InitCommit
    \/ PrintParameters
    \/ ChaosInterrupt

RequestStep(s) ==
    \/ BeforeRequest(s)
    \/ ParseFormInvalid(s)
    \/ GenTimestamp(s)
    \/ GenReadNode(s)
    \/ GenReadCounter(s)
    \/ GenUpdate(s)
    \/ CreateCommit(s)
    \/ Teardown(s)

Next ==
    \/ Tick /\ UNCHANGED aux
    \/ FlaskSetup /\ UNCHANGED aux
    \/ ChaosStep /\ UNCHANGED aux
    \/ \E s \in Sessions : RequestStep(s) /\ UNCHANGED aux

Spec == Init /\ [][Next]_vars

\* The bootstrap and the reset beside one request at a time.
NextBoot ==
    \/ Tick /\ UNCHANGED aux
    \/ FlaskSetup /\ UNCHANGED aux
    \/ ChaosStep /\ UNCHANGED aux
    \/ RequestStep("s1") /\ UNCHANGED aux

SpecBoot == Init /\ [][NextBoot]_vars

\* The serving application alone, on a store that chaos.py has bootstrapped
\* (the state after main on a fresh path and flask_setup).
InitRun ==
    /\ AuxIdle
    /\ dbfile = TRUE
    /\ tables = TRUE
    /\ \E m \in NodeIds, sd \in SeedValues :
         /\ params = [ k \in ParamKeys |->
                         CASE k = "node_id"    -> HexOf(m)
                           [] k = "trng_seed"  -> HexOf(ToBytes(sd, CTR_LEN))
                           [] k = "first_boot" -> StrOfTime(0) ]
         /\ counter = sd
    /\ items = {}
    /\ lock = "none"
    /\ now = 0
    /\ app_up = TRUE
    /\ sess = [ s \in Sessions |-> IdleSession ]
    /\ chaos = IdleChaos
    /\ calls = << >>
    /\ nruns = 1
    /\ maxcalls = MaxCallsRun

\* The same with fewer calls followed.
InitPair ==
    /\ AuxIdle
    /\ dbfile = TRUE
    /\ tables = TRUE
    /\ \E m \in NodeIds, sd \in SeedValues :
         /\ params = [ k \in ParamKeys |->
                         CASE k = "node_id"    -> HexOf(m)
                           [] k = "trng_seed"  -> HexOf(ToBytes(sd, CTR_LEN))
                           [] k = "first_boot" -> StrOfTime(0) ]
         /\ counter = sd
    /\ items = {}
    /\ lock = "none"
    /\ now = 0
    /\ app_up = TRUE
    /\ sess = [ s \in Sessions |-> IdleSession ]
    /\ chaos = IdleChaos
    /\ calls = << >>
    /\ nruns = 1
    /\ maxcalls = MaxCallsPair

NextRun ==
    \/ Tick /\ UNCHANGED aux
    \/ \E s \in Sessions : RequestStep(s) /\ UNCHANGED aux

SpecRun == InitRun /\ [][NextRun]_vars

SpecPair == InitPair /\ [][NextRun]_vars

\* ---------------------------------------------- hexid / unhexid applied
\* The identifier service at rest, while another part of the program is
\* exercised.
CoreIdle ==
    /\ dbfile = FALSE
    /\ tables = FALSE
    /\ params = NoPending
    /\ counter = None
    /\ items = {}
    /\ lock = "none"
    /\ now = 0
    /\ app_up = FALSE
    /\ sess = [ s \in Sessions |-> IdleSession ]
    /\ chaos = IdleChaos
    /\ calls = << >>
    /\ nruns = 0
    /\ maxcalls = 0

\* One identifier and one string are drawn; the functions are then applied.
InitHex ==
    /\ CoreIdle
    /\ \E id \in SampleIds : \E t \in Texts(id) :
         hx = [ IdleHex EXCEPT !.pc = "start", !.id = id, !.text = t ]
    /\ req = Off
    /\ recs = {}
    /\ clock = 0
    /\ sfile = Off
    /\ gs = Off

\* text = hexid(id)
HexidCall ==
    /\ hx.pc = "start"
    /\ hx' = [ hx EXCEPT !.pc = "hexed", !.hexed = hexid(hx.id) ]
    /\ UNCHANGED << core, req, recs, clock, sfile, gs >>

\* unhexid(hexid(id))
UnhexidOfHexid ==
    /\ hx.pc = "hexed"
    /\ hx' = [ hx EXCEPT !.pc = "back", !.back = unhexid(hx.hexed) ]
    /\ UNCHANGED << core, req, recs, clock, sfile, gs >>

\* unhexid(s) for the string drawn
UnhexidOfText ==
    /\ hx.pc = "back"
    /\ hx' = [ hx EXCEPT !.pc = "done", !.res = unhexid(hx.text) ]
    /\ UNCHANGED << core, req, recs, clock, sfile, gs >>

NextHex ==
    \/ HexidCall
    \/ UnhexidOfHexid
    \/ UnhexidOfText

SpecHex == InitHex /\ [][NextHex]_vars

\* ------------------------------------------------------- hermes: /edit
\* The path segments requested: encodings of the stored row's key and of a
\* key that is not stored, well formed and malformed.  The string converter
\* of the route takes no empty segment.
EditPaths == (Texts(RecId(1)) \cup Texts(RecId(2))) \ { << >> }

\* request.form of a POST: whether title and due_date pass
\* parse_item_form, and the fields it returns.
EditForms ==
    [ valid : BOOLEAN, status : Statuses, priority : {0, 1},
      due_raw : {None, DayLen} ]

\* request.form of a GET.
NoForm ==
    [ valid |-> FALSE, status |-> "pending", priority |-> 0,
      due_raw |-> None ]

\* One row is stored; no request is in progress.
InitEdit ==
    /\ CoreIdle
    /\ hx = Off
    /\ req = [ IdleReq EXCEPT !.pc = "idle" ]
    /\ recs = { [ id |-> RecId(1), status |-> "pending", due |-> None,
                  priority |-> 0 ] }
    /\ clock = 0
    /\ sfile = Off
    /\ gs = Off

\* edit(item_hex), the whole handler.
Edit(item_hex, method, arg, form) ==
    LET tz == get_user_tz(arg)
        r == unhexid(item_hex)
        found == { x \in recs : x.id = r.value }
        resp == [ IdleReq EXCEPT !.pc = "responded", !.route = "edit",
                                 !.method = method, !.tz_arg = arg,
                                 !.item_hex = item_hex, !.tz = tz,
                                 !.idres = r,
                                 \* g.db.get is reached when unhexid returned
                                 !.read = (r.raised = "none") ]
    IN
    /\ req.pc = "idle"
    /\ IF r.raised = "ValueError"
       THEN \* return "Invalid ID", 400
            /\ req' = [ resp EXCEPT !.status = 400 ]
            /\ recs' = recs
       ELSE IF found = {}
       THEN \* return "Item not found", 404
            /\ req' = [ resp EXCEPT !.status = 404 ]
            /\ recs' = recs
       ELSE IF method = "GET"
       THEN \* render_template("edit.html", ...)
            /\ req' = [ resp EXCEPT !.status = 200 ]
            /\ recs' = recs
       ELSE IF ~form.valid
       THEN \* url_for("main.edit", tz=tz_param) has no item_hex: BuildError
            /\ req' = [ resp EXCEPT !.status = 500 ]
            /\ recs' = recs
       ELSE \* UPDATE ... WHERE id = item_id; commit; redirect to the index
            /\ req' = [ resp EXCEPT !.status = 302, !.wrote = TRUE ]
            /\ recs' = { IF x.id = r.value
                         THEN [ x EXCEPT !.status = form.status,
                                         !.priority = form.priority,
                                         !.due = to_utc(form.due_raw,
                                                        tz.zone) ]
                         ELSE x : x \in recs }
    /\ UNCHANGED << core, hx, clock, sfile, gs >>

\* The response has been sent; the next request can be served.
Respond ==
    /\ req.pc = "responded"
    /\ req' = [ IdleReq EXCEPT !.pc = "idle" ]
    /\ UNCHANGED << core, hx, recs, clock, sfile, gs >>

\* A request arrives when the worker is free.
EditRequest ==
    /\ req.pc = "idle"
    /\ \E item_hex \in EditPaths, arg \in TzArgs :
          \/ Edit(item_hex, "GET", arg, NoForm)
          \/ \E form \in EditForms : Edit(item_hex, "POST", arg, form)

NextEdit ==
    \/ EditRequest
    \/ Respond

SpecEdit == InitEdit /\ [][NextEdit]_vars

\* -------------------------------------------------- hermes: /api/today
\* Due dates stored with the rows, as UTC ticks: none, and values at and
\* next to the ends of the first day in the zones followed.
DueSamples == {None, DayLen - 2, DayLen - 1, DayLen, DayLen + 1}

\* The columns of a row that the queries look at.
RecFields == [ status : Statuses, due : DueSamples, priority : {0, 1} ]

\* A number for each combination of columns; stores that differ only in
\* which key carries which columns are taken once.
FieldCode(r) ==
    (IF r.status = "done" THEN 1 ELSE 0) + 2 * r.priority
      + 4 * (IF r.due = None THEN 0 ELSE r.due + 1)

\* Any stored set of up to MaxRecs rows; no request is in progress.
InitToday ==
    /\ CoreIdle
    /\ hx = Off
    /\ req = [ IdleReq EXCEPT !.pc = "idle" ]
    /\ clock = 0
    /\ sfile = Off
    /\ gs = Off
    /\ \E n \in 0..MaxRecs : \E f \in [ 1..n -> RecFields ] :
         /\ \A i \in 1..(n - 1) : FieldCode(f[i]) <= FieldCode(f[i + 1])
         /\ recs = { [ id |-> RecId(i), status |-> f[i].status,
                       due |-> f[i].due, priority |-> f[i].priority ] :
                     i \in 1..n }

\* datetime.now(timezone.utc) moves on between requests.
ClockTick ==
    /\ req.pc = "idle"
    /\ clock < MaxClock
    /\ clock' = clock + 1
    /\ UNCHANGED << core, hx, req, recs, sfile, gs >>

\* datetime.combine(now_user.date(), time.max): the last tick of the
\* calendar day of a wall time.
EndOfDay(w) == (w \div DayLen) * DayLen + (DayLen - 1)

\* Mutant: rows that are done are returned too.
NotDone_All(x) == TRUE

\* .where(Item.status != "done")
NotDone(x) == x.status # "done"

\* Mutant: the boundary itself is left out.
DueBy_Strict(x, bound) ==
    x.due = None
      \/ (StoredText(x.due) # StoredText(bound)
            /\ TextLeq(StoredText(x.due), StoredText(bound)))

\* .where(Item.due_date.is_(None) | (Item.due_date <= today_end)): the
\* column and the bound parameter are compared in their stored text form.
DueBy(x, bound) ==
    x.due = None \/ TextLeq(StoredText(x.due), StoredText(bound))

\* The result lists a query may return for the rows S it selects under
\* .order_by(Item.priority.desc()): rows of equal priority in any order.
ByPriorityDesc(S) ==
    { q \in [ 1..Cardinality(S) -> S ] :
        /\ \A i, j \in DOMAIN q : i # j => q[i] # q[j]
        /\ \A i, j \in DOMAIN q : i < j => q[i].priority >= q[j].priority }

\* hermes.api_today(), the whole handler.
ApiToday(arg) ==
    LET tz == get_user_tz(arg)
        now_user == UtcToWall(clock, tz.zone)
        today_end == WallToUtc(EndOfDay(now_user), tz.zone)
        resp == [ IdleReq EXCEPT !.pc = "responded", !.route = "api_today",
                                 !.tz_arg = arg, !.tz = tz ]
    IN
    /\ req.pc = "idle"
    /\ IF ~tz.applied
       THEN \* {"error": "Timezone parameter (tz) is required"}, 400
            req' = [ resp EXCEPT !.status = 400 ]
       ELSE \E q \in ByPriorityDesc({ x \in recs :
                                        NotDone(x) /\ DueBy(x, today_end) }) :
              req' = [ resp EXCEPT !.status = 200, !.read = TRUE,
                                   !.today_end = today_end, !.rows = q ]
    /\ UNCHANGED << core, hx, recs, clock, sfile, gs >>

\* hestia.api_today(), the whole handler: tz defaults to "UTC", and
\* today_end is bound as the wall time of the user's zone.
HestiaApiToday(arg) ==
    LET tz_name == IF arg = << >> THEN "UTC" ELSE arg[1]
        now_user == UtcToWall(clock, tz_name)
        today_end == EndOfDay(now_user)
        resp == [ IdleReq EXCEPT !.pc = "responded",
                                 !.route = "hestia_api_today",
                                 !.tz_arg = arg ]
    IN
    /\ req.pc = "idle"
    /\ IF tz_name \notin KnownZones
       THEN \* {"error": "Invalid timezone: ..."}, 400
            req' = [ resp EXCEPT !.status = 400 ]
       ELSE \E q \in ByPriorityDesc({ x \in recs :
                                        NotDone(x) /\ DueBy(x, today_end) }) :
              req' = [ resp EXCEPT
                         !.status = 200, !.read = TRUE,
                         !.tz = [ name |-> tz_name, zone |-> tz_name,
                                  applied |-> TRUE ],
                         !.today_end = today_end, !.rows = q ]
    /\ UNCHANGED << core, hx, recs, clock, sfile, gs >>

\* A request arrives when the worker is free.
TodayRequest ==
    /\ req.pc = "idle"
    /\ \E arg \in TzArgs : ApiToday(arg) \/ HestiaApiToday(arg)

NextToday ==
    \/ ClockTick
    \/ TodayRequest
    \/ Respond

SpecToday == InitToday /\ [][NextToday]_vars

\* ------------------------------------------------- chiron: get_secret
\* What a process finds at start: db_dir writable, read-only, absent but
\* creatable, or not creatable; the secret file absent or left by some
\* earlier run or by hand; the mode open() gives a file it creates.
InitSecret ==
    /\ CoreIdle
    /\ hx = Off
    /\ req = Off
    /\ recs = {}
    /\ clock = 0
    /\ gs = [ IdleSecretProc EXCEPT !.pc = "idle" ]
    /\ \E d \in {"ok", "readonly", "absent", "blocked"},
          cm \in CreateModes :
         \/ sfile = [ IdleSecretFile EXCEPT !.dir = d, !.cmode = cm ]
         \/ /\ d \in {"ok", "readonly"}
            /\ \E c \in FileContents, m \in FileModes, o \in BOOLEAN :
                 sfile = [ IdleSecretFile EXCEPT
                             !.dir = d, !.cmode = cm, !.exists = TRUE,
                             !.content = c, !.mode = m, !.owned = o ]

\* sys.exit(1) after the FATAL message: nothing is returned.
SecretExit ==
    gs' = [ gs EXCEPT !.pc = "exited", !.ret = << >> ]

\* get_secret(db_dir, regen) is entered by a starting process:
\* if regen or not secret_file.exists()
GetSecret(regen) ==
    /\ gs.pc \in {"idle", "returned", "exited"}
    /\ gs.n < MaxSecretCalls
    /\ gs' = [ gs EXCEPT
                 !.pc = IF regen \/ ~sfile.exists THEN "token" ELSE "read",
                 !.path = IF regen \/ ~sfile.exists THEN "generate"
                                                     ELSE "load",
                 !.regen = regen,
                 !.secret = << >>,
                 !.ret = << >>,
                 !.n = gs.n + 1,
                 !.existed0 = sfile.exists,
                 !.content0 = sfile.content,
                 !.readable0 = sfile.exists /\ CanRead(sfile),
                 !.prev = [ kind |-> IF gs.pc = "idle" THEN "none"
                                     ELSE IF gs.pc = "exited" THEN "exit"
                                     ELSE gs.path,
                            ret |-> gs.ret ] ]
    /\ UNCHANGED << core, hx, req, recs, clock, sfile >>

\* secret = secrets.token_hex(32)
SecretToken ==
    /\ gs.pc = "token"
    /\ \E t \in FreshSecrets : gs' = [ gs EXCEPT !.pc = "mkdir", !.secret = t ]
    /\ UNCHANGED << core, hx, req, recs, clock, sfile >>

\* secret_file.parent.mkdir(parents=True, exist_ok=True)
SecretMkdir ==
    /\ gs.pc = "mkdir"
    /\ IF sfile.dir = "blocked"
       THEN SecretExit /\ sfile' = sfile
       ELSE /\ gs' = [ gs EXCEPT !.pc = "open" ]
            /\ sfile' = [ sfile EXCEPT
                            !.dir = IF @ = "absent" THEN "ok" ELSE @ ]
    /\ UNCHANGED << core, hx, req, recs, clock >>

\* write_text: open(secret_file, "w") creates the file with the mode the
\* umask leaves, or empties the file that is there and keeps its mode.
SecretOpen ==
    /\ gs.pc = "open"
    /\ IF sfile.exists
       THEN IF CanWrite(sfile)
            THEN /\ gs' = [ gs EXCEPT !.pc = "write" ]
                 /\ sfile' = [ sfile EXCEPT !.content = << >>,
                                            !.written = FALSE ]
            ELSE SecretExit /\ sfile' = sfile
       ELSE IF sfile.dir = "ok"
            THEN /\ gs' = [ gs EXCEPT !.pc = "write" ]
                 /\ sfile' = [ sfile EXCEPT !.exists = TRUE,
                                            !.content = << >>,
                                            !.mode = sfile.cmode,
                                            !.owned = TRUE,
                                            !.written = FALSE ]
            ELSE SecretExit /\ sfile' = sfile
    /\ UNCHANGED << core, hx, req, recs, clock >>

\* write_text: write and close.
SecretWrite ==
    /\ gs.pc = "write"
    /\ gs' = [ gs EXCEPT !.pc = "chmod" ]
    /\ sfile' = [ sfile EXCEPT !.content = gs.secret,
                               !.written = TRUE ]
    /\ UNCHANGED << core, hx, req, recs, clock >>

\* Mutant: the secret is returned although it was not written.
SecretWriteFails_Returns ==
    /\ gs.pc = "write"
    /\ gs' = [ gs EXCEPT !.pc = "returned", !.ret = gs.secret ]
    /\ UNCHANGED << core, hx, req, recs, clock, sfile >>

\* write_text: the write fails (no space left, I/O error): OSError.
SecretWriteFails ==
    /\ gs.pc = "write"
    /\ SecretExit
    /\ UNCHANGED << core, hx, req, recs, clock, sfile >>

\* secret_file.chmod(0o600); return secret.  chmod is refused on a file of
\* another owner.
SecretChmod ==
    /\ gs.pc = "chmod"
    /\ IF sfile.owned
       THEN /\ gs' = [ gs EXCEPT !.pc = "returned", !.ret = gs.secret ]
            /\ sfile' = [ sfile EXCEPT !.mode = MODE_0600 ]
       ELSE SecretExit /\ sfile' = sfile
    /\ UNCHANGED << core, hx, req, recs, clock >>

\* secret = secret_file.read_text().strip()
SecretRead ==
    /\ gs.pc = "read"
    /\ IF CanRead(sfile)
       THEN gs' = [ gs EXCEPT !.pc = "validate",
                              !.secret = Strip(sfile.content) ]
       ELSE SecretExit
    /\ UNCHANGED << core, hx, req, recs, clock, sfile >>

\* Mutant: a secret that fails validation is replaced by a new one.
SecretInvalid_Regenerates ==
    gs' = [ gs EXCEPT !.pc = "token" ]

\* The FATAL "Secret file corrupted" branch.
SecretInvalid == SecretExit

\* if not re.match(...): sys.exit(1); return secret
SecretValidate ==
    /\ gs.pc = "validate"
    /\ IF ReMatch(gs.secret)
       THEN gs' = [ gs EXCEPT !.pc = "returned", !.ret = gs.secret ]
       ELSE SecretInvalid
    /\ UNCHANGED << core, hx, req, recs, clock, sfile >>

NextSecret ==
    \/ \E regen \in BOOLEAN : GetSecret(regen)
    \/ SecretToken
    \/ SecretMkdir
    \/ SecretOpen
    \/ SecretWrite
    \/ SecretWriteFails
    \/ SecretChmod
    \/ SecretRead
    \/ SecretValidate

SpecSecret == InitSecret /\ [][NextSecret]_vars

\* ------------------------------------------------------------------ claims
\* Calls whose identifier was returned to the caller.
IssuedCalls == { i \in DOMAIN calls : calls[i].id # NoStr }

\* The seed the bootstrap stored: trng_seed is the hex form of the value
\* primary_counter was seeded with.
StoredSeed == FromBytes(FromHex(params["trng_seed"]))

C2_SerializedIncrement ==
    /\ counter = StoredSeed + Cardinality(CommittedCalls)
    /\ \A i, j \in CommittedCalls :
         i # j => CtrField(calls[i].id) # CtrField(calls[j].id)

\* C3: every committed write of primary_counter stores a value greater than
\* or equal to the value committed just before it.
C3_CounterNeverDecreases ==
    [][ (counter # None /\ counter' # None) => counter' >= counter ]_vars

\* C4: an identifier produced by a call that started after another call had
\* returned and committed is lexicographically >= that call's identifier
\* (same node fingerprint).
C4_SequentialIdsOrdered ==
    \A j \in IssuedCalls : \A i \in calls[j].after :
        MacField(calls[i].id) = MacField(calls[j].id)
            => LexLeq(calls[i].id, calls[j].id)

\* C5: for one node fingerprint, the identifiers issued so far, taken in the
\* order of their counter field, are lexicographically non-decreasing.
C5_CounterOrderIsLexOrder ==
    \A i, j \in CommittedCalls :
        ( /\ MacField(calls[i].id) = MacField(calls[j].id)
          /\ FromBytes(CtrField(calls[i].id)) < FromBytes(CtrField(calls[j].id)) )
            => LexLeq(calls[i].id, calls[j].id)


NodeRowMissing(s) == sess[s].pc = "node" /\ tables /\ params["node_id"] = NoStr
CounterRowMissing(s) == sess[s].pc = "ctr" /\ tables /\ counter = None
Rows == << params, counter, items >>

\* C6: generate_item_id on a store without the node_id parameter or without
\* the primary_counter row raises the invariant-violation error, returns no
\* identifier, takes no lock, and neither that step nor the teardown of the
\* failed request creates or changes a row.
C6_MissingRowFails ==
    [][ \A s \in Sessions :
          /\ ( (NodeRowMissing(s) \/ CounterRowMissing(s)) /\ sess'[s] # sess[s] )
               => /\ sess'[s].exc = "RuntimeError"
                  /\ sess'[s].pc = "teardown"
                  /\ sess'[s].id = NoStr
                  /\ calls'[sess[s].call].id = NoStr
                  /\ lock' = lock
                  /\ Rows' = Rows
          /\ ( sess[s].exc = "RuntimeError" /\ sess'[s] # sess[s] )
               => /\ Rows' = Rows
                  /\ calls'[sess[s].call].id = NoStr
                  /\ calls'[sess[s].call].state = "failed" ]_vars

\* C6 witness: a call found node_id, then found the primary_counter row
\* absent, and failed.
C6_Witness ==
    \E s \in Sessions :
        /\ sess[s].exc = "RuntimeError"
        /\ sess[s].mac # NoStr
        /\ counter = None

BootKeys == ParamKeys \cup {"primary_counter"}

\* The value ensure_* finds for a key: the session's pending row, else the
\* committed row.
FoundParam(k) == IF chaos.pend[k] # NoStr THEN chaos.pend[k] ELSE params[k]
FoundCounter == IF chaos.pendctr # None THEN chaos.pendctr ELSE counter

\* C7: ensure_parameter / ensure_counter on an existing key return the stored
\* value, add nothing and do not call the supplier; on an absent key they
\* add the supplier's value (as str / int) and return it; and no step of an
\* initialize_parameters run that started on an initialised store changes
\* node_id, trng_seed, first_boot or primary_counter.
C7_EnsureIdempotent ==
    [][ /\ \A k \in ParamKeys :
             (chaos.pc = k /\ chaos'.pc = NextKey(k)) =>
                IF FoundParam(k) = NoStr
                THEN /\ chaos'.used
                     /\ \E v \in Supplied(k) :
                          /\ chaos'.pend = [ chaos.pend EXCEPT ![k] = v[1] ]
                          /\ chaos'.retStr = v[2]
                          /\ chaos'.retNum = v[3]
                ELSE /\ ~chaos'.used
                     /\ chaos'.pend = chaos.pend
                     /\ chaos'.pendctr = chaos.pendctr
                     /\ chaos'.retStr = FoundParam(k)
        /\ (chaos.pc = "primary_counter" /\ chaos'.pc = "commit") =>
                IF FoundCounter = None
                THEN /\ chaos'.used
                     /\ chaos'.pendctr = chaos.seed
                     /\ chaos'.retNum = chaos.seed
                ELSE /\ ~chaos'.used
                     /\ chaos'.pend = chaos.pend
                     /\ chaos'.pendctr = chaos.pendctr
                     /\ chaos'.retNum = FoundCounter
        /\ (chaos.onInit /\ chaos' # chaos) =>
                /\ params' = params
                /\ counter' = counter ]_vars

\* C7 witness: initialize_parameters ran on an initialised store up to its
\* commit, ensure_counter having returned the stored value.
C7_Witness ==
    /\ chaos.pc = "commit"
    /\ chaos.onInit
    /\ ~chaos.wrote
    /\ chaos.retNum = counter
    /\ chaos.seed # counter

AllAbsent == counter = None /\ \A k \in ParamKeys : params[k] = NoStr
AllPresent == counter # None /\ \A k \in ParamKeys : params[k] # NoStr

\* C8: every durable state of a store that started empty holds none of the
\* four bootstrap keys or all four.
C8_BootstrapAtomic == AllAbsent \/ AllPresent

\* C8 witness: the bootstrap has made its four writes and has not committed;
\* the store holds none of them.
C8_Witness ==
    /\ chaos.pc = "commit"
    /\ chaos.pendctr # None
    /\ \A k \in ParamKeys : chaos.pend[k] # NoStr
    /\ AllAbsent

\* C9: a stored parameter row is replaced or removed only by drop_all of
\* main's drop-and-recreate path; that step removes every row; the bootstrap
\* that follows finds the store empty, and its commit leaves exactly the
\* rows it wrote.
C9_OnlyResetReplaces ==
    [][ /\ \A k \in ParamKeys :
             (params[k] # NoStr /\ params'[k] # params[k]) =>
                /\ chaos.mode = "main"
                /\ chaos.pc = "drop_all"
                /\ chaos'.pc = "create_all"
        /\ (chaos.pc = "drop_all" /\ chaos'.pc = "create_all") =>
                /\ AllAbsent'
                /\ items' = {}
        /\ (chaos.mode = "main" /\ chaos.pc \in BootKeys /\ chaos' # chaos) =>
                AllAbsent
        /\ (chaos.mode = "main" /\ chaos.pc = "commit" /\ chaos'.pc = "print") =>
                /\ AllAbsent
                /\ params' = chaos.pend
                /\ counter' = chaos.pendctr
                /\ AllPresent' ]_vars

\* C9 witness: an item was committed, and a later drop-and-recreate run has
\* wiped it and completed its bootstrap.
C9_Witness ==
    /\ CommittedCalls # {}
    /\ items = {}
    /\ chaos.pc = "print"
    /\ chaos.wrote
    /\ AllPresent

\* C10: no committed primary_counter value is 2^56 or larger (here
\* CounterLimit); a call that read CounterLimit - 1 ends in an error without
\* an identifier, and neither it nor its teardown changes the committed
\* counter.
C10_CounterWithin56Bits ==
    /\ [](counter < CounterLimit)
    /\ [][ \A s \in Sessions :
             /\ (sess[s].pc = "upd" /\ sess[s].prev = CounterLimit - 1
                   /\ sess'[s] # sess[s])
                  => /\ sess'[s].pc = "teardown"
                     /\ sess'[s].exc \in {"OverflowError", "OperationalError"}
                     /\ sess'[s].id = NoStr
                     /\ counter' = counter
             /\ (sess[s].exc = "OverflowError" /\ sess'[s] # sess[s])
                  => /\ counter' = counter
                     /\ calls'[sess[s].call].id = NoStr
                     /\ calls'[sess[s].call].state = "failed"
                     /\ lock' # s ]_vars

\* C10 witness: a call that read CounterLimit - 1 has raised on encoding
\* CounterLimit, its UPDATE still pending, the committed counter unchanged.
C10_Witness ==
    \E s \in Sessions :
        /\ sess[s].exc = "OverflowError"
        /\ sess[s].newv = CounterLimit
        /\ sess[s].upd
        /\ counter = CounterLimit - 1

\* The two hex digits of each of the two fingerprint bytes, as stored.
FingerprintHex(mac) ==
    << mac[1] \div 16, mac[1] % 16, mac[2] \div 16, mac[2] % 16 >>

\* C11: an identifier returned on a bootstrapped store has 16 bytes: bytes
\* 0-6 are the captured millisecond time, big-endian; bytes 7-8 the stored
\* node_id fingerprint; bytes 9-15 the big-endian (counter value read) + 1,
\* which is the value the call's commit writes to primary_counter.
C11_IdentifierLayout ==
    [][ \A s \in Sessions :
          /\ (sess[s].pc = "handler" /\ sess'[s].pc = "node")
               => sess'[s].ts = now
          /\ (sess[s].pc = "node" /\ sess'[s].pc = "ctr")
               => /\ Len(sess'[s].mac) = 2
                  /\ FingerprintHex(sess'[s].mac) = params["node_id"]
          /\ (sess[s].pc = "ctr" /\ sess'[s].pc = "upd")
               => sess'[s].prev = counter
          /\ (sess[s].pc = "upd" /\ sess'[s].pc = "add")
               => LET id == sess'[s].id IN
                  /\ Len(id) = 16
                  /\ \A i \in 1..16 : id[i] \in 0..(ByteBase - 1)
                  /\ FromBytes(SubSeq(id, 1, 7)) = sess[s].ts
                  /\ SubSeq(id, 8, 9) = sess[s].mac
                  /\ FromBytes(SubSeq(id, 10, 16)) = sess[s].prev + 1
                  /\ calls'[sess[s].call].id = id
          /\ (sess[s].pc = "add" /\ sess'[s].pc = "teardown"
                /\ sess'[s].exc = "none")
               => /\ counter' = sess[s].prev + 1
                  /\ sess[s].id \in items' ]_vars

\* C11 witness: a call that captured millisecond 1 has returned its
\* identifier.
C11_Witness ==
    \E s \in Sessions :
        /\ sess[s].pc = "add"
        /\ sess[s].ts = 1
        /\ sess[s].prev + 1 # sess[s].ts

\* The sixteen lower-case hexadecimal characters.
LowerHexChars ==
    {"0", "1", "2", "3", "4", "5", "6", "7", "8", "9",
     "a", "b", "c", "d", "e", "f"}

\* C12: hexid(id) has exactly 32 characters, all lower-case hex digits, and
\* unhexid(hexid(id)) returns id, for every 16-byte id.
C12_HexRoundTrip ==
    /\ hx.pc \in {"hexed", "back", "done"}
         => /\ Len(hx.hexed) = 32
            /\ \A i \in 1..32 : hx.hexed[i] \in LowerHexChars
    /\ hx.pc \in {"back", "done"}
         => /\ hx.back.raised = "none"
            /\ hx.back.value = hx.id

\* C12 witness: an identifier whose first byte has two different nibbles,
\* one of them a letter digit, went through both functions.
C12_Witness ==
    /\ hx.pc = "back"
    /\ Len(hx.id) = 16
    /\ hx.id[1] = 171
    /\ hx.id[2] = 9

\* Exactly 32 characters, each a hexadecimal digit of either case.
IsHex32(t) ==
    /\ Len(t) = 32
    /\ \A i \in 1..32 :
         t[i] \in LowerHexChars \cup {"A", "B", "C", "D", "E", "F"}

\* C13: unhexid of a string that is not exactly 32 hex characters raises the
\* invalid-identifier error and returns no bytes, and the edit route answers
\* such a path segment with 400 without reading or writing a row.
C13_MalformedIdRejected ==
    [][ (req.pc = "idle" /\ req'.pc = "responded" /\ req'.route = "edit"
           /\ ~IsHex32(req'.item_hex))
          => /\ req'.idres.raised = "ValueError"
             /\ req'.idres.value = << >>
             /\ req'.status = 400
             /\ ~req'.read
             /\ ~req'.wrote
             /\ recs' = recs ]_vars

\* C13 witness: a POST to a path of 34 hex characters was answered.
C13_Witness ==
    /\ req.pc = "responded"
    /\ req.route = "edit"
    /\ req.method = "POST"
    /\ Len(req.item_hex) = 34
    /\ \A i \in 1..34 : req.item_hex[i] \in LowerHexChars

\* Exactly 64 characters, each a lower-case hexadecimal digit.
IsSecret(t) ==
    /\ Len(t) = 64
    /\ \A i \in 1..64 : t[i] \in LowerHexChars

\* C14: a get_secret call that finds no file or is told to regenerate
\* returns a fresh secret of 64 lower-case hex characters only when the file
\* holds exactly that secret; when a write step fails the process ends and
\* returns nothing; the next call without regen returns the same secret.
C14_GeneratedSecretPersisted ==
    /\ (gs.pc \in {"token", "mkdir", "open", "write", "chmod"}
          \/ (gs.pc \in {"returned", "exited"} /\ gs.path = "generate"))
         => (gs.regen \/ ~gs.existed0)
    /\ (gs.pc = "returned" /\ gs.path = "generate")
         => /\ IsSecret(gs.ret)
            /\ sfile.exists
            /\ sfile.content = gs.ret
    /\ gs.pc = "exited" => gs.ret = << >>
    /\ (gs.pc \in {"returned", "exited"} /\ gs.prev.kind = "generate"
          /\ ~gs.regen)
         => /\ gs.pc = "returned"
            /\ gs.ret = gs.prev.ret

\* C14 witness: a regeneration over an existing file returned, and the load
\* after it has returned too.
C14_Witness ==
    /\ gs.pc = "returned"
    /\ gs.path = "load"
    /\ gs.prev.kind = "generate"
    /\ gs.prev.ret # OldSecret

\* C15: a get_secret call without regen on an existing file that cannot be
\* read, or whose content fails the validation, ends fatally with nothing
\* returned and the content as it was; only a call with regen set changes
\* the content of a file that existed when the call began.
C15_NoImplicitRegeneration ==
    /\ [](gs.path = "load"
            => /\ ~gs.regen
               /\ gs.existed0
               /\ sfile.exists
               /\ sfile.content = gs.content0
               /\ (gs.pc \in {"returned", "exited"}
                     /\ (~gs.readable0 \/ ~ReMatch(Strip(gs.content0))))
                    => (gs.pc = "exited" /\ gs.ret = << >>))
    /\ [][ (gs.existed0 /\ gs.pc \notin {"idle", "returned", "exited"}
              /\ sfile'.content # sfile.content)
             => gs.regen ]_vars

\* C15 witness: a call without regen ended fatally on a readable file whose
\* 64 characters include one that is no hex digit.
C15_Witness ==
    /\ gs.pc = "exited"
    /\ gs.path = "load"
    /\ gs.readable0
    /\ Len(gs.content0) = 64
    /\ gs.content0[1] = "g"
    /\ sfile.content = gs.content0

\* Positions at which two strings of one length differ.
DiffPositions(a, b) == { i \in 1..Len(a) : a[i] # b[i] }

\* C16: a load of a readable secret file succeeds exactly when the content
\* is 64 lower-case hex characters with nothing before or after them, and a
\* stored secret with any one character changed fails the next load.
C16_ExactSecretOnly ==
    (gs.pc \in {"returned", "exited"} /\ gs.path = "load" /\ gs.readable0)
      => /\ gs.pc = "returned" <=> IsSecret(gs.content0)
         /\ (Len(gs.content0) = Len(OldSecret)
               /\ Cardinality(DiffPositions(gs.content0, OldSecret)) = 1)
              => gs.pc = "exited"

\* C17: whenever the secret file exists and holds a secret that get_secret
\* wrote, between the steps of a call and after a regeneration over an
\* existing file included, its permission bits are 0600.
C17_SecretFileOwnerOnly ==
    (sfile.exists /\ sfile.written /\ IsSecret(sfile.content))
      => sfile.mode = 384

\* C18: get_user_tz does not fail on an unknown or unparseable zone name: it
\* returns UTC with the applied flag false, while a request for "UTC" returns
\* UTC with the flag true.
C18_UnknownZoneFallsBack ==
    (req.pc = "responded" /\ req.route = "api_today")
      => /\ req.tz.zone \in {"UTC", "Asia/Tokyo", "America/New_York",
                           "America/Santiago"}
         /\ (req.tz_arg = << >> \/ req.tz_arg = << "" >>
               \/ req.tz_arg = << "Mars/Phobos" >>)
              => (req.tz.name = "UTC" /\ req.tz.zone = "UTC"
                    /\ ~req.tz.applied)
         /\ req.tz_arg = << "UTC" >>
              => (req.tz.name = "UTC" /\ req.tz.zone = "UTC"
                    /\ req.tz.applied)
         /\ req.tz.applied => req.tz_arg = << req.tz.name >>

\* C18 witness: get_user_tz was handed a name ZoneInfo does not know.
C18_Witness ==
    /\ req.pc = "responded"
    /\ req.route = "api_today"
    /\ req.tz_arg = << "Mars/Phobos" >>

\* C19: a request that names an unknown time zone is not failed for it: on
\* every route, /api/today included, it is served with UTC and with the
\* zone flagged as not applied.
C19_UnknownZoneServed ==
    (req.pc = "responded" /\ req.tz_arg = << "Mars/Phobos" >>)
      => /\ req.status = 200
         /\ req.tz.zone = "UTC"
         /\ ~req.tz.applied

\* C20: for a valid zone the due-today query of hermes returns exactly the
\* stored rows whose status is not "done" and whose due date is absent or
\* not later than the end-of-day boundary in UTC, each of them once.
C20_DueTodaySelection ==
    (req.pc = "responded" /\ req.route = "api_today")
      => /\ req.tz.applied <=> req.status = 200
         /\ req.status = 200
              => /\ { req.rows[i] : i \in DOMAIN req.rows }
                      = { x \in recs :
                            /\ x.status # "done"
                            /\ (x.due = None \/ x.due <= req.today_end) }
                 /\ \A i, j \in DOMAIN req.rows :
                      i # j => req.rows[i] # req.rows[j]

\* C20 witness: a query in a zone ahead of UTC returned a row due exactly at
\* the boundary and left out a row due one tick later.
C20_Witness ==
    /\ req.pc = "responded"
    /\ req.route = "api_today"
    /\ req.status = 200
    /\ req.tz.zone = "Asia/Tokyo"
    /\ \E i \in DOMAIN req.rows : req.rows[i].due = req.today_end
    /\ Len(req.rows) = 1
    /\ \E x \in recs : x.status # "done" /\ x.due = req.today_end + 1

\* Row a may stand before row b: higher priority, or equal priority and a due
\* date that is not later, a row without due date after all rows with one.
MayPrecede(a, b) ==
    \/ a.priority > b.priority
    \/ /\ a.priority = b.priority
       /\ (b.due = None \/ (a.due # None /\ a.due <= b.due))

\* C21: the rows returned by the due-today query are ordered by priority
\* descending and, among rows of equal priority, by due date ascending with
\* the rows without due date last.
C21_DueTodayOrdered ==
    (req.pc = "responded" /\ req.route = "api_today" /\ req.status = 200)
      => \A i, j \in DOMAIN req.rows :
           i < j => MayPrecede(req.rows[i], req.rows[j])

\* Calendar date, in zone z, of the UTC instant t.
LocalDate(z, t) == (t + OffsetAtUtc(z, t)) \div DayLen

\* Total offset change of zone z that falls on local date d.
ChangeOn(z, d) ==
    LET tr == ZoneTrans(z)
        before(i) == IF i = 1 THEN ZoneBase(z) ELSE tr[i - 1].off
        delta(i) == IF LocalDate(z, tr[i].at) = d
                    THEN tr[i].off - before(i) ELSE 0
        sum[i \in 0..Len(tr)] == IF i = 0 THEN 0 ELSE sum[i - 1] + delta(i)
    IN  sum[Len(tr)]

\* The boundary the same computation yields for the preceding local date.
PreviousDayEnd(z, t) == WallToUtc(EndOfDay(UtcToWall(t, z)) - DayLen, z)

\* C22: the end-of-day boundary the due-today query computes is the UTC
\* instant of the last moment of the zone-local calendar date of the
\* reference instant: it is not before the reference instant, its local date
\* is the reference's local date, and its distance from the preceding day's
\* boundary is one day less the offset change that falls on that date.
C22_EndOfDayBoundary ==
    (req.pc = "responded" /\ req.route = "api_today" /\ req.status = 200)
      => /\ req.today_end >= clock
         /\ LocalDate(req.tz.zone, req.today_end)
              = LocalDate(req.tz.zone, clock)
         /\ req.today_end - PreviousDayEnd(req.tz.zone, clock)
              = DayLen - ChangeOn(req.tz.zone, LocalDate(req.tz.zone, clock))

\* C23: every request is handled on a storage session created for it before
\* the handler runs and closed when the request completes, whether it
\* succeeded or raised: a session at rest holds no state, no pending write
\* and no lock of an earlier request; a handler starts on a fresh session; a
\* session writes to the store only inside its request; and the teardown of
\* a request that raised discards its uncommitted writes (the committed
\* counter and items stay as they were) and releases the session.
C23_SessionPerRequest ==
    /\ [](\A s \in Sessions :
            /\ sess[s].pc = "idle" => (sess[s] = IdleSession /\ lock # s)
            /\ lock = s => sess[s].pc \in {"add", "teardown"})
    /\ [][ \A s \in Sessions :
             /\ (sess[s].pc = "idle" /\ sess'[s] # sess[s])
                  => sess'[s] = [ IdleSession EXCEPT !.pc = "handler" ]
             /\ (sess[s].pc = "teardown" /\ sess'[s] # sess[s])
                  => /\ sess'[s] = IdleSession
                     /\ lock' # s
                     /\ sess[s].exc # "none"
                          => (counter' = counter /\ items' = items)
             /\ (sess[s].pc \in {"idle", "teardown"} /\ sess'[s] = sess[s]
                   /\ \A t \in Sessions \ {s} : sess'[t] = sess[t])
                  => (counter' = counter /\ items' = items) ]_vars

\* C23 witness: a request whose identifier call had returned (its counter
\* UPDATE pending) raised and has been torn down: every session is at rest
\* and the write lock is free.
C23_Witness ==
    /\ \E i \in DOMAIN calls : calls[i].state = "failed" /\ calls[i].id # NoStr
    /\ \A s \in Sessions : sess[s].pc = "idle"
    /\ lock = "none"

\* C24: in create the counter increment and the insertion of the record are
\* committed together or not at all: a step in which a create request fails
\* after its identifier was returned, and the teardown of a request whose
\* call was not committed, leave the committed primary_counter and the
\* committed records as they were; and every step that commits a record or
\* raises the committed primary_counter commits a new record whose identifier
\* carries the counter value committed by that step.
C24_IncrementAndInsertTogether ==
    [][ /\ \A s \in Sessions :
             /\ (sess[s].pc = "add" /\ sess'[s].exc # "none")
                  => (counter' = counter /\ items' = items)
             /\ (sess[s].pc = "teardown" /\ sess'[s] # sess[s]
                   /\ sess[s].call # 0
                   /\ calls[sess[s].call].state # "committed")
                  => /\ counter' = counter
                     /\ items' = items
                     /\ calls'[sess[s].call].state = "failed"
        /\ (counter' > counter \/ items' # items)
             => \E id \in items' \ items :
                  FromBytes(CtrField(id)) = counter' ]_vars

\* C24 witness: a create request whose identifier was returned has failed on
\* the insertion, its counter UPDATE still uncommitted, after another
\* request committed a record.
C24_Witness ==
    \E s \in Sessions :
        /\ sess[s].pc = "teardown"
        /\ sess[s].exc = "IntegrityError"
        /\ sess[s].upd
        /\ sess[s].id \in items
=============================================================================
